---- MODULE Spec2Model ----
(***************************************************************************)
(* A model of filestructure.py: ProjectStructureParser (the text file ->   *)
(* nested dictionary pass) and ProjectStructureCreator (the dictionary ->  *)
(* filesystem pass).                                                       *)
(*                                                                         *)
(* Text is a sequence of one-character strings.  The characters that are   *)
(* not ASCII are written as tokens: "VERT" (U+2502), "TEE" (U+251C),       *)
(* "ELL" (U+2514), "HORZ" (U+2500); "NL" is the newline readlines() keeps. *)
(* A Python dict is a sequence of [key, val] records in insertion order;   *)
(* a dict object is an index into heap, so that two references to one      *)
(* dict (the tree and hierarchy_stack) stay aliased.                       *)
(***************************************************************************)
EXTENDS Integers, Sequences, FiniteSets, TLC

VARIABLES
    raw,                \* parse_structure: what f.readlines() returns
    lines,              \* parse_structure / _build_structure_dict: lines
    pc,                 \* position of the parser
    outcome,            \* "none" | "returned" | the exception raised
    root_dict,          \* _build_structure_dict: root_dict
    heap,               \* the dict objects allocated so far, by identity
    hierarchy_stack,    \* _build_structure_dict: hierarchy_stack (identities)
    current_hierarchy,  \* _build_structure_dict: current_hierarchy
    cleaned_lines,      \* _build_structure_dict: cleaned_lines
    idx,                \* 1-based position of the for loop in cleaned_lines
    stripped,           \* history: the prefix re.sub removed, per cleaned line
    attach,             \* history: where each cleaned line was attached
    tree_spec,          \* create_project_structure: tree_spec
    fs,                 \* the filesystem below base_path
    mpc,                \* position of the creator
    run,                \* number of the create_project_structure call
    widx,               \* 1-based position of process_tree in its walk
    merr,               \* the exception the current call raised, or "none"
    failed_at,          \* history: position in the walk of the failed entry
    fs_prev,            \* history: the filesystem when the current call began
    prev_ok             \* history: the previous call returned normally

pvars == <<raw, lines, pc, outcome, root_dict, heap, hierarchy_stack,
           current_hierarchy, cleaned_lines, idx, stripped, attach>>
mvars == <<tree_spec, fs, mpc, run, widx, merr, failed_at, fs_prev, prev_ok>>
vars == <<pvars, mvars>>

----------------------------------------------------------------------------
(* Bounds *)

MaxLines == 4

MaxWidth == 2

MaxRuns == 2

----------------------------------------------------------------------------
(* Text *)

None == 0

Last(s) == s[Len(s)]

ListPop(s) == SubSeq(s, 1, Len(s) - 1)

IsSpace(c) == c \in {" ", "NL"}

IsTreeSymbol(c) == c \in {"VERT", "TEE", "ELL", "HORZ"}

\* str.rstrip(): drop the trailing whitespace
RStrip(s) ==
    LET keep == {i \in 0..Len(s) : \A j \in (i+1)..Len(s) : IsSpace(s[j])}
        n == CHOOSE i \in keep : \A k \in keep : i <= k
    IN  SubSeq(s, 1, n)

\* str.lstrip(): drop the leading whitespace
LStrip(s) ==
    LET drop == {i \in 0..Len(s) : \A j \in 1..i : IsSpace(s[j])}
        n == CHOOSE i \in drop : \A k \in drop : k <= i
    IN  SubSeq(s, n + 1, Len(s))

\* str.strip()
Strip(s) == LStrip(RStrip(s))

\* str.rstrip('/'): drop every trailing '/'
RStripSlash(s) ==
    LET keep == {i \in 0..Len(s) : \A j \in (i+1)..Len(s) : s[j] = "/"}
        n == CHOOSE i \in keep : \A k \in keep : i <= k
    IN  SubSeq(s, 1, n)

\* the length of the match of ^[tree symbols and \s]+
TreePrefixLen(s) ==
    LET drop == {i \in 0..Len(s) :
                    \A j \in 1..i : IsTreeSymbol(s[j]) \/ IsSpace(s[j])}
    IN  CHOOSE i \in drop : \A k \in drop : k <= i

\* re.sub(r'^[tree symbols and \s]+', '', line)
SubTreeSymbols(s) == SubSeq(s, TreePrefixLen(s) + 1, Len(s))

\* str.endswith('/')
EndsWithSlash(s) == Len(s) > 0 /\ s[Len(s)] = "/"

\* child.startswith(parent)
StartsWith(child, parent) ==
    /\ Len(parent) <= Len(child)
    /\ SubSeq(child, 1, Len(parent)) = parent

_is_parent_dir(parent, child) == StartsWith(child, parent) /\ child # parent

----------------------------------------------------------------------------
(* Dictionaries *)

HasKey(d, k) == \E i \in 1..Len(d) : d[i].key = k

\* d[k], for a key d has
Lookup(d, k) == d[CHOOSE i \in 1..Len(d) : d[i].key = k].val

\* d[k] = v: an existing key keeps its position, a new one goes last
DictSet(d, k, v) ==
    IF HasKey(d, k)
    THEN [i \in 1..Len(d) |-> IF d[i].key = k THEN [key |-> k, val |-> v] ELSE d[i]]
    ELSE Append(d, [key |-> k, val |-> v])

\* hierarchy_stack.append(current_location[clean_line])
PushDict(stack, id) == Append(stack, id)

\* the while loop with hierarchy_stack.pop() left out
RECURSIVE PopLoopNamesOnly(_, _, _)
PopLoopNamesOnly(hier, stack, clean_line) ==
    IF hier # <<>> /\ ~_is_parent_dir(Last(hier), clean_line)
    THEN PopLoopNamesOnly(ListPop(hier), stack, clean_line)
    ELSE [hier |-> hier, stack |-> stack]

\* the while loop of the directory branch: pop both lists together while the
\* innermost open directory's name is not a proper prefix of the new name
RECURSIVE PopLoop(_, _, _)
PopLoop(hier, stack, clean_line) ==
    IF hier # <<>> /\ ~_is_parent_dir(Last(hier), clean_line)
    THEN PopLoop(ListPop(hier), ListPop(stack), clean_line)
    ELSE [hier |-> hier, stack |-> stack]

----------------------------------------------------------------------------
(* The inputs: files of at most MaxLines lines, each drawn from RawLines,
   and the two examples of the specification. *)

Txt(s) == s \o <<"NL">>

RawLines ==
    { Txt(<<>>),                              \* a blank line
      Txt(<<"#", "a">>),                      \* #a
      Txt(<<"a", "/">>),                      \* a/
      Txt(<<"/">>),                           \* /
      Txt(<<"VERT", " ">>),                   \* tree symbols only
      Txt(<<"TEE", " ", "a", "/">>),          \* |- a/
      Txt(<<"TEE", " ", "a", "b", "/">>),     \* |- ab/
      Txt(<<"TEE", " ", "a">>),               \* |- a
      Txt(<<"TEE", " ", "a", "/", "b">>) }    \* |- a/b

Project == <<"p", "r", "o", "j", "e", "c", "t">>
Src == <<"s", "r", "c">>
SrcUtils == <<"s", "r", "c", "_", "u", "t", "i", "l", "s">>
MainExt == <<"m", "a", "i", "n", ".", "e", "x", "t">>
ReadmeMd == <<"R", "E", "A", "D", "M", "E", ".", "m", "d">>

Branch == <<"TEE", "HORZ", "HORZ", " ">>
Corner == <<"ELL", "HORZ", "HORZ", " ">>
Bar == <<"VERT", " ", " ", " ">>

\* project/ , |-- src/ , |   `-- main.ext , `-- README.md
ExampleTree ==
    << Txt(Project \o <<"/">>),
       Txt(Branch \o Src \o <<"/">>),
       Txt(Bar \o Corner \o MainExt),
       Txt(Corner \o ReadmeMd) >>

\* project/ , |-- src/ , |-- src_utils/
ExampleSiblings ==
    << Txt(Project \o <<"/">>),
       Txt(Branch \o Src \o <<"/">>),
       Txt(Branch \o SrcUtils \o <<"/">>) >>

Inputs ==
    UNION {[1..n -> RawLines] : n \in 0..MaxLines}
        \cup {ExampleTree, ExampleSiblings}

----------------------------------------------------------------------------
(* ProjectStructureParser *)

\* [line.rstrip() for line in lines if line.strip()]
NonEmptyLines(ls) ==
    LET kept == SelectSeq(ls, LAMBDA l : Strip(l) # <<>>)
    IN  [i \in 1..Len(kept) |-> RStrip(kept[i])]

\* re.sub(...).strip() of every line after the first, the empty results dropped
CleanedOf(ls) ==
    LET rest == SubSeq(ls, 2, Len(ls))
        all == [i \in 1..Len(rest) |-> Strip(SubTreeSymbols(rest[i]))]
    IN  SelectSeq(all, LAMBDA c : c # <<>>)

\* the prefixes re.sub removed from the lines CleanedOf keeps
StrippedOf(ls) ==
    LET rest == SubSeq(ls, 2, Len(ls))
        kept == SelectSeq(rest, LAMBDA l : Strip(SubTreeSymbols(l)) # <<>>)
    IN  [i \in 1..Len(kept) |-> SubSeq(kept[i], 1, TreePrefixLen(kept[i]))]

PInit ==
    /\ raw \in Inputs
    /\ lines = <<>>
    /\ pc = "read"
    /\ outcome = "none"
    /\ root_dict = <<>>
    /\ heap = <<>>
    /\ hierarchy_stack = <<>>
    /\ current_hierarchy = <<>>
    /\ cleaned_lines = <<>>
    /\ idx = 1
    /\ stripped = <<>>
    /\ attach = <<>>

\* parse_structure, up to the call of _build_structure_dict
ParseStructure ==
    /\ pc = "read"
    /\ lines' = NonEmptyLines(raw)
    /\ pc' = "build"
    /\ UNCHANGED <<raw, outcome, root_dict, heap, hierarchy_stack,
                   current_hierarchy, cleaned_lines, idx, stripped, attach>>

\* lines[0] of an empty list
RaiseIndexError ==
    /\ pc = "build"
    /\ lines = <<>>
    /\ outcome' = "IndexError"
    /\ pc' = "raised"
    /\ UNCHANGED <<raw, lines, root_dict, heap, hierarchy_stack,
                   current_hierarchy, cleaned_lines, idx, stripped, attach>>

\* _build_structure_dict, from the root name to cleaned_lines
BuildRoot ==
    /\ pc = "build"
    /\ lines # <<>>
    /\ LET root_name == Strip(RStripSlash(lines[1]))
       IN  /\ heap' = << <<>> >>
           /\ root_dict' = << [key |-> root_name, val |-> 1] >>
    /\ hierarchy_stack' = <<1>>
    /\ current_hierarchy' = <<>>
    /\ cleaned_lines' = CleanedOf(lines)
    /\ stripped' = StrippedOf(lines)
    /\ idx' = 1
    /\ pc' = "loop"
    /\ UNCHANGED <<raw, lines, outcome, attach>>

\* one iteration of the for loop, directory branch
ProcessDir ==
    /\ pc = "loop"
    /\ idx <= Len(cleaned_lines)
    /\ EndsWithSlash(cleaned_lines[idx])
    /\ LET clean_line == RStripSlash(cleaned_lines[idx])
           popped == PopLoop(current_hierarchy, hierarchy_stack, clean_line)
           current_location == Last(popped.stack)
           new == Len(heap) + 1
       IN  /\ heap' = Append([heap EXCEPT ![current_location] =
                                  DictSet(@, clean_line, new)], <<>>)
           /\ current_hierarchy' = Append(popped.hier, clean_line)
           /\ hierarchy_stack' = PushDict(popped.stack, new)
           /\ attach' = Append(attach, [parent |-> current_location,
                                        key |-> clean_line,
                                        kind |-> "dir", node |-> new])
    /\ idx' = idx + 1
    /\ UNCHANGED <<raw, lines, pc, outcome, root_dict, cleaned_lines, stripped>>

\* one iteration of the for loop, file branch
ProcessFile ==
    /\ pc = "loop"
    /\ idx <= Len(cleaned_lines)
    /\ ~EndsWithSlash(cleaned_lines[idx])
    /\ LET clean_line == RStripSlash(cleaned_lines[idx])
           current_location == Last(hierarchy_stack)
       IN  /\ heap' = [heap EXCEPT ![current_location] =
                           DictSet(@, clean_line, None)]
           /\ attach' = Append(attach, [parent |-> current_location,
                                        key |-> clean_line,
                                        kind |-> "file", node |-> None])
    /\ idx' = idx + 1
    /\ UNCHANGED <<raw, lines, pc, outcome, root_dict, hierarchy_stack,
                   current_hierarchy, cleaned_lines, stripped>>

\* return root_dict
ReturnRoot ==
    /\ pc = "loop"
    /\ idx > Len(cleaned_lines)
    /\ pc' = "done"
    /\ outcome' = "returned"
    /\ UNCHANGED <<raw, lines, root_dict, heap, hierarchy_stack,
                   current_hierarchy, cleaned_lines, idx, stripped, attach>>

PIdle ==
    /\ raw = <<>>
    /\ lines = <<>>
    /\ pc = "idle"
    /\ outcome = "none"
    /\ root_dict = <<>>
    /\ heap = <<>>
    /\ hierarchy_stack = <<>>
    /\ current_hierarchy = <<>>
    /\ cleaned_lines = <<>>
    /\ idx = 1
    /\ stripped = <<>>
    /\ attach = <<>>

----------------------------------------------------------------------------
(* The filesystem below base_path.  A path is the sequence of its
   components, <<>> is base_path itself, which exists. *)

EmptyFS == [dirs |-> {}, files |-> {}]

IsDir(f, p) == p = <<>> \/ p \in f.dirs

IsFile(f, p) == \E e \in f.files : e.path = p

\* the path and every ancestor of it below base_path
Prefixes(p) == {SubSeq(p, 1, k) : k \in 1..Len(p)}

\* os.makedirs(p, exist_ok=False) raises where exist_ok=True does, and also
\* when p is already a directory
MakedirsRaisesIfExists(f, p) ==
    \/ \E q \in Prefixes(p) : IsFile(f, q)
    \/ p \in f.dirs

\* os.makedirs(p, exist_ok=True) raises: a component of p is a file
MakedirsRaises(f, p) == \E q \in Prefixes(p) : IsFile(f, q)

\* os.makedirs(p, exist_ok=True), when it does not raise
Makedirs(f, p) == [f EXCEPT !.dirs = @ \cup Prefixes(p)]

\* open(p, 'a').close(), for p that is no directory
OpenAppend(f, p) ==
    IF IsFile(f, p) THEN f
    ELSE [f EXCEPT !.files = @ \cup {[path |-> p, content |-> ""]}]

\* with open(p, 'w') as f: f.write(content), for p that is no directory
OpenWrite(f, p, content) ==
    [f EXCEPT !.files = {e \in @ : e.path # p}
                            \cup {[path |-> p, content |-> content]}]

\* create_path: the exception raised ("none" when it returns) and the
\* filesystem it leaves
create_path(f, path_parts, is_file) ==
    IF is_file
    THEN LET dirname == ListPop(path_parts)
         IN  IF MakedirsRaises(f, dirname)
             THEN [err |-> "FileExistsError", fs |-> f]
             ELSE IF IsDir(Makedirs(f, dirname), path_parts)
             THEN [err |-> "IsADirectoryError", fs |-> Makedirs(f, dirname)]
             ELSE [err |-> "none",
                   fs |-> OpenAppend(Makedirs(f, dirname), path_parts)]
    ELSE IF MakedirsRaises(f, path_parts)
         THEN [err |-> "FileExistsError", fs |-> f]
         ELSE [err |-> "none", fs |-> Makedirs(f, path_parts)]

----------------------------------------------------------------------------
(* ProjectStructureCreator.  A tree_spec value is None (kind "none"), a
   string (kind "str") or a dict (kind "dir"); a dict is the sequence of its
   items. *)

RootName == "proj"

Names == {"a", "b", "c"}

NoneVal == [kind |-> "none", content |-> "", children |-> <<>>]

StrVal == [kind |-> "str", content |-> "x", children |-> <<>>]

DictVal(d) == [kind |-> "dir", content |-> "", children |-> d]

Item(n, v) ==
    [name |-> n, kind |-> v.kind, content |-> v.content, children |-> v.children]

\* the dicts of at most one item whose value is None, a string or {}
InnerDicts ==
    {<<>>} \cup {<<Item(n, v)>> : n \in {"a", "b"},
                                  v \in {NoneVal, StrVal, DictVal(<<>>)}}

TopVals == {NoneVal, StrVal} \cup {DictVal(d) : d \in InnerDicts}

\* the dicts of at most MaxWidth items, the keys distinct
TopDicts ==
    UNION { { [i \in 1..n |-> Item(ns[i], vs[i])] :
                ns \in {f \in [1..n -> Names] :
                          \A i, j \in 1..n : i # j => f[i] # f[j]},
                vs \in [1..n -> TopVals] } : n \in 0..MaxWidth }

\* {root: {...}}, and {} which has no single root
TreeSpecs == {<<>>} \cup {<<Item(RootName, DictVal(d))>> : d \in TopDicts}

Old(p) == [path |-> p, content |-> "old"]

\* what base_path may hold before the first call
InitialFS ==
    { EmptyFS,
      [dirs |-> {<<RootName>>}, files |-> {Old(<<RootName, "a">>)}],
      [dirs |-> {<<RootName>>}, files |-> {Old(<<RootName, "b">>)}],
      [dirs |-> {<<RootName>>, <<RootName, "a">>},
       files |-> {Old(<<RootName, "a", "a">>)}] }

\* the order in which process_tree reaches the items of current_tree:
\* each item, then (for a dict) the items below it, then the next item
RECURSIVE process_tree(_, _)
process_tree(current_tree, current_path) ==
    IF current_tree = <<>> THEN <<>>
    ELSE LET item == Head(current_tree)
             full_path == Append(current_path, item.name)
         IN  <<[path |-> full_path, kind |-> item.kind, content |-> item.content]>>
                 \o (IF item.kind = "dir"
                     THEN process_tree(item.children, full_path)
                     ELSE <<>>)
                 \o process_tree(Tail(current_tree), current_path)

\* process_tree(root_structure)
Walk == IF Len(tree_spec) = 1
        THEN process_tree(tree_spec[1].children, <<tree_spec[1].name>>)
        ELSE <<>>

\* the body of the for loop for one item
ProcessItem(f, item) ==
    IF item.kind = "dir" THEN create_path(f, item.path, FALSE)
    ELSE IF item.kind = "none" THEN create_path(f, item.path, TRUE)
    ELSE LET made == create_path(f, item.path, TRUE)
         IN  IF made.err # "none" THEN made
             ELSE [err |-> "none", fs |-> OpenWrite(made.fs, item.path, item.content)]

MInit ==
    /\ tree_spec \in TreeSpecs
    /\ fs \in InitialFS
    /\ mpc = "ready"
    /\ run = 0
    /\ widx = 0
    /\ merr = "none"
    /\ failed_at = 0
    /\ fs_prev = fs
    /\ prev_ok = FALSE

MIdle ==
    /\ tree_spec = <<>>
    /\ fs = EmptyFS
    /\ mpc = "idle"
    /\ run = 0
    /\ widx = 0
    /\ merr = "none"
    /\ failed_at = 0
    /\ fs_prev = EmptyFS
    /\ prev_ok = FALSE

Callable == mpc \in {"ready", "returned", "raised"} /\ run < MaxRuns

\* create_project_structure(tree_spec, base_path, confirm=False), up to the
\* call of process_tree
Call ==
    /\ Callable
    /\ Len(tree_spec) = 1
    /\ run' = run + 1
    /\ prev_ok' = (mpc = "returned")
    /\ fs_prev' = fs
    /\ merr' = "none"
    /\ failed_at' = 0
    /\ widx' = 1
    /\ mpc' = "walk"
    /\ UNCHANGED <<tree_spec, fs>>

\* raise ValueError("Input structure should have a single root directory")
CallRaisesValueError ==
    /\ Callable
    /\ Len(tree_spec) # 1
    /\ run' = run + 1
    /\ prev_ok' = (mpc = "returned")
    /\ fs_prev' = fs
    /\ merr' = "ValueError"
    /\ failed_at' = 0
    /\ widx' = 0
    /\ mpc' = "raised"
    /\ UNCHANGED <<tree_spec, fs>>

\* one item of process_tree, created
CreateItem ==
    /\ mpc = "walk"
    /\ widx <= Len(Walk)
    /\ ProcessItem(fs, Walk[widx]).err = "none"
    /\ fs' = ProcessItem(fs, Walk[widx]).fs
    /\ widx' = widx + 1
    /\ UNCHANGED <<tree_spec, mpc, run, merr, failed_at, fs_prev, prev_ok>>

\* one item of process_tree, whose create_path raises: nothing catches the
\* exception below main, so it ends the call
CreateItemRaises ==
    /\ mpc = "walk"
    /\ widx <= Len(Walk)
    /\ ProcessItem(fs, Walk[widx]).err # "none"
    /\ fs' = ProcessItem(fs, Walk[widx]).fs
    /\ merr' = ProcessItem(fs, Walk[widx]).err
    /\ failed_at' = widx
    /\ mpc' = "raised"
    /\ UNCHANGED <<tree_spec, run, widx, fs_prev, prev_ok>>

\* process_tree returns and the call prints its last message
ReturnCreated ==
    /\ mpc = "walk"
    /\ widx > Len(Walk)
    /\ mpc' = "returned"
    /\ UNCHANGED <<tree_spec, fs, run, widx, merr, failed_at, fs_prev, prev_ok>>

----------------------------------------------------------------------------
(* Specifications *)

Init == PInit /\ MIdle

Next ==
    \/ ParseStructure /\ UNCHANGED mvars
    \/ RaiseIndexError /\ UNCHANGED mvars
    \/ BuildRoot /\ UNCHANGED mvars
    \/ ProcessDir /\ UNCHANGED mvars
    \/ ProcessFile /\ UNCHANGED mvars
    \/ ReturnRoot /\ UNCHANGED mvars

\* one parse of one input file
Spec == Init /\ [][Next]_vars

CreateInit == PIdle /\ MInit

CreateNext ==
    \/ Call /\ UNCHANGED pvars
    \/ CallRaisesValueError /\ UNCHANGED pvars
    \/ CreateItem /\ UNCHANGED pvars
    \/ CreateItemRaises /\ UNCHANGED pvars
    \/ ReturnCreated /\ UNCHANGED pvars

\* up to MaxRuns calls of create_project_structure on one tree_spec
SpecCreate == CreateInit /\ [][CreateNext]_vars

----------------------------------------------------------------------------
(* Properties of the parser, checked under Spec *)

Items(d) == {d[k] : k \in 1..Len(d)}

\* the dict objects reachable from those in S
RECURSIVE ReachFrom(_)
ReachFrom(S) ==
    LET more == S \cup {e.val : e \in {x \in UNION {Items(heap[i]) : i \in S} :
                                          x.val # None}}
    IN  IF more = S THEN S ELSE ReachFrom(more)

\* the dict objects of the tree root_dict holds
TreeDicts == ReachFrom({e.val : e \in Items(root_dict)})

\* the names of the nodes of the tree root_dict holds
TreeNames ==
    {e.key : e \in Items(root_dict)}
        \cup {e.key : e \in UNION {Items(heap[i]) : i \in TreeDicts}}

\* the first character of the line that is no whitespace is '#'
IsCommentLine(l) == LStrip(l) # <<>> /\ LStrip(l)[1] = "#"

\* the line (as _build_structure_dict receives it) cleaned line k came from
SourceLine(k) == stripped[k] \o cleaned_lines[k]

\* the line names an entry: it is not blank, no comment, and its name is
\* not empty and holds no '/'
PlainLine(l) ==
    LET name == RStripSlash(Strip(SubTreeSymbols(RStrip(l))))
    IN  /\ ~IsCommentLine(l)
        /\ name # <<>>
        /\ \A k \in 1..Len(name) : name[k] # "/"

PlainInput == \A n \in 1..Len(raw) : PlainLine(raw[n])

\* C1: the parse of the four lines of ExampleTree returns the root project
\* whose children are src, holding exactly main.ext, and then README.md.
C1_ExampleTree ==
    (pc = "done" /\ raw = ExampleTree) =>
        /\ Len(root_dict) = 1
        /\ root_dict[1].key = Project
        /\ \E s \in 1..Len(heap) :
              /\ heap[root_dict[1].val] =
                     << [key |-> Src, val |-> s], [key |-> ReadmeMd, val |-> None] >>
              /\ heap[s] = << [key |-> MainExt, val |-> None] >>

\* C2: in an input of plain lines, two directory lines with the same tree-symbol prefix (hence the same
\* depth) are never attached one beneath the other.
C2_SiblingIndependence ==
    \A i, j \in 1..Len(attach) :
        (/\ PlainInput
         /\ i < j
         /\ attach[i].kind = "dir"
         /\ attach[j].kind = "dir"
         /\ stripped[i] = stripped[j])
            => attach[j].parent # attach[i].node

\* C3: the parse of a file that is one blank line ends in MalformedStructure
\* and returns no tree.
C3_BlankInputMalformed ==
    (raw = <<Txt(<<>>)>> /\ pc \in {"done", "raised"}) =>
        (outcome = "MalformedStructure" /\ root_dict = <<>>)

\* C6: no node of the returned tree, the root included, is made from a
\* comment line.
C6_CommentsSkipped ==
    pc = "done" =>
        /\ ~IsCommentLine(lines[1])
        /\ \A k \in 1..Len(attach) : ~IsCommentLine(SourceLine(k))

\* C7: in an input of plain lines, no line is attached beneath an entry that an earlier line created as
\* a file.
C7_FileNeverParent ==
    \A i, j \in 1..Len(attach) :
        (PlainInput /\ i < j /\ attach[i].kind = "file") =>
            ~(/\ HasKey(heap[attach[i].parent], attach[i].key)
              /\ Lookup(heap[attach[i].parent], attach[i].key) = attach[j].parent)

\* C8: every node of the returned tree has a name that is not empty and
\* holds no '/'.
C8_NamesWellFormed ==
    pc = "done" =>
        \A n \in TreeNames : n # <<>> /\ \A k \in 1..Len(n) : n[k] # "/"

\* C9: in an input of plain lines, every entry an input line named is still in the returned tree, in the
\* directory it was attached to.
C9_NoEntryLost ==
    (pc = "done" /\ PlainInput) =>
        \A i \in 1..Len(attach) :
            /\ attach[i].parent \in TreeDicts
            /\ HasKey(heap[attach[i].parent], attach[i].key)

\* C10: once the root exists, hierarchy_stack has one more element than
\* current_hierarchy and its bottom element is the root's dict.
C10_StackShape ==
    pc \in {"loop", "done"} =>
        /\ Len(hierarchy_stack) = Len(current_hierarchy) + 1
        /\ hierarchy_stack[1] = root_dict[1].val

\* a directory was popped for a sibling directory, and a directory is open
C10_Witness ==
    /\ pc = "loop"
    /\ Len(hierarchy_stack) >= 2
    /\ \E i, j \in 1..Len(attach) :
          /\ i < j
          /\ attach[i].kind = "dir"
          /\ attach[j].kind = "dir"
          /\ attach[i].parent = attach[j].parent

----------------------------------------------------------------------------
(* Properties of the creator, checked under SpecCreate *)

\* the entry the item asks for exists
Created(f, item) ==
    IF item.kind = "dir" THEN IsDir(f, item.path) ELSE IsFile(f, item.path)

\* path p lies in or below path q
Under(p, q) == Len(q) <= Len(p) /\ SubSeq(p, 1, Len(q)) = q

\* C4: a call that follows a call that returned raises nothing and leaves
\* the filesystem as that call left it.
C4_Idempotent ==
    (run >= 2 /\ prev_ok) => (merr = "none" /\ fs = fs_prev)

\* a second call has returned on a tree with a directory, a file with
\* content and a file that was there before the first call
C4_Witness ==
    /\ run = 2
    /\ prev_ok
    /\ mpc = "returned"
    /\ \E k \in 1..Len(Walk) : Walk[k].kind = "dir" /\ Len(Walk[k].path) = 2
    /\ \E k \in 1..Len(Walk) : Walk[k].kind = "str"
    /\ \E e \in fs.files : e.content = "old"

\* C5: when the creation of one item raises, every later item of the walk
\* that does not lie under it is still created.
C5_FailureConfined ==
    (mpc = "raised" /\ failed_at > 0) =>
        \A k \in 1..Len(Walk) :
            (k > failed_at /\ ~Under(Walk[k].path, Walk[failed_at].path))
                => Created(fs, Walk[k])

====
